---- MODULE Spec2Model ----
(***************************************************************************)
(* devchat/engine/command_runner.py: CommandRunner.                        *)
(*                                                                         *)
(* Text is a sequence of letters.  The letters of the model's alphabet are *)
(* the chunks the program's names and inputs are made of ("$", " ",        *)
(* "input", "_file", "command_python", ...), so that str.find, str.replace *)
(* and str.split are computed letter by letter as Python computes them.    *)
(* A dict is the sequence of its <<key, value>> items in insertion order.  *)
(* A value is a record [t, s]: a str (t = "str"), a list (t = "list") or   *)
(* None (t = "none").                                                      *)
(***************************************************************************)
EXTENDS Integers, Sequences, FiniteSets, TLC

VARIABLES
    \* ---- the world one invocation runs in
    command,          \* Command: [run, input, parameters, path]
    model_name,       \* CommandRunner._model_name
    os_environ,       \* os.environ
    cwd,              \* the process's working directory
    fs,               \* directory -> state of its runtime.json
    readme,           \* state of README.md in the command's directory
    call,             \* the arguments of the entry point that was called
    \* ---- run_command / run_command_with_parameters
    pc,               \* "idle", "launch", "returned"; "raised": an exception left the call
    env,              \* the environment built by run_command_with_parameters
    command_run,      \* the substituted run string
    result,           \* the value returned to the caller
    spawned,          \* subprocess.Popen was called
    trail,            \* check: the early return taken; caught: line 119 ran;
                      \* built: lines 97-101 completed
    \* ---- __load_command_runtime on its own
    runtime_config,
    \* ---- __run_command_with_thread_output
    main,             \* position of the launching thread
    child,            \* the child process
    pipes,            \* the stdout and stderr pipes
    readers,          \* the two pipe_reader threads
    launched          \* the launcher's return value

vars == <<command, model_name, os_environ, cwd, fs, readme, call, pc, env,
          command_run, result, spawned, trail, runtime_config,
          main, child, pipes, readers, launched>>

world == <<command, model_name, os_environ, cwd, fs, readme, call>>
runner == <<pc, env, command_run, result, spawned, trail>>
launcher == <<main, child, pipes, readers, launched>>
\* what a step of the launcher leaves alone
others == <<world, runner, runtime_config>>

\* ------------------------------------------------------------------ values

S(s) == [t |-> "str", s |-> s]
L(s) == [t |-> "list", s |-> s]
None == [t |-> "none", s |-> <<>>]

\* Python truthiness of a value: None, "" and [] are false.
Truthy(v) == v.t # "none" /\ v.s # <<>>

\* ------------------------------------------------------------------ str

\* s.startswith(p)
StartsWith(s, p) == Len(s) >= Len(p) /\ SubSeq(s, 1, Len(p)) = p

\* s.find(sub) != -1
Contains(s, sub) ==
    \E i \in 0..(Len(s) - Len(sub)) : SubSeq(s, i + 1, i + Len(sub)) = sub

\* s.replace(old, new), old not empty: leftmost occurrences, not overlapping,
\* the inserted text is not scanned again.
RECURSIVE Replace(_, _, _)
Replace(s, old, new) ==
    IF Len(s) < Len(old) THEN s
    ELSE IF SubSeq(s, 1, Len(old)) = old
         THEN new \o Replace(SubSeq(s, Len(old) + 1, Len(s)), old, new)
         ELSE <<Head(s)>> \o Replace(Tail(s), old, new)

\* s.split(sep) for a one-letter sep: the pieces between the separators.
RECURSIVE Split(_, _)
Split(s, sep) ==
    IF \A i \in 1..Len(s) : s[i] # sep THEN <<s>>
    ELSE LET i == CHOOSE j \in 1..Len(s) :
                      s[j] = sep /\ \A k \in 1..(j - 1) : s[k] # sep
         IN <<SubSeq(s, 1, i - 1)>> \o Split(SubSeq(s, i + 1, Len(s)), sep)

\* sep.join(parts)
RECURSIVE Join(_, _)
Join(parts, sep) ==
    IF parts = <<>> THEN <<>>
    ELSE IF Len(parts) = 1 THEN parts[1]
    ELSE parts[1] \o <<sep>> \o Join(Tail(parts), sep)

\* s.rstrip(c) and s.lstrip(c) for a set of letters
RECURSIVE RStrip(_, _)
RStrip(s, cs) ==
    IF s # <<>> /\ s[Len(s)] \in cs THEN RStrip(SubSeq(s, 1, Len(s) - 1), cs) ELSE s

RECURSIVE LStrip(_, _)
LStrip(s, cs) == IF s # <<>> /\ Head(s) \in cs THEN LStrip(Tail(s), cs) ELSE s

\* ------------------------------------------------------------------ dict

Keys(d) == {d[i][1] : i \in 1..Len(d)}
Has(d, k) == k \in Keys(d)
Index(d, k) == CHOOSE i \in 1..Len(d) : d[i][1] = k
Get(d, k, default) == IF Has(d, k) THEN d[Index(d, k)][2] ELSE default

\* d[k] = v: an existing key keeps its place, a new key goes last.
Put(d, k, v) ==
    IF Has(d, k) THEN [d EXCEPT ![Index(d, k)] = <<k, v>>] ELSE Append(d, <<k, v>>)

\* d.update(e)
RECURSIVE Update(_, _)
Update(d, e) == IF e = <<>> THEN d ELSE Update(Put(d, e[1][1], e[1][2]), Tail(e))

\* del d[k], k in d
Del(d, k) == LET i == Index(d, k) IN SubSeq(d, 1, i - 1) \o SubSeq(d, i + 1, Len(d))

\* ------------------------------------------------------------------ paths

\* os.path.dirname(p)
dirname(p) ==
    LET slashes == {i \in 1..Len(p) : p[i] = "/"}
        i == IF slashes = {} THEN 0
             ELSE CHOOSE j \in slashes : \A k \in slashes : k <= j
        head == SubSeq(p, 1, i)
    IN IF head # <<>> /\ \E j \in 1..Len(head) : head[j] # "/"
       THEN RStrip(head, {"/"}) ELSE head

\* os.path.join(a, b), b relative
path_join(a, b) ==
    IF a = <<>> \/ a[Len(a)] = "/" THEN a \o b ELSE a \o <<"/">> \o b

\* The directory a path string names, as the names from the root down: a
\* relative path is taken from the working directory.
DirOf(p, wd) ==
    LET names == SelectSeq(Split(p, "/"), LAMBDA n : n # <<>>)
        flat == [i \in 1..Len(names) |-> names[i][1]]
    IN IF p # <<>> /\ p[1] = "/" THEN flat ELSE wd \o flat

\* ------------------------------------------------------------------ runtime.json

Absent == [k |-> "absent", d |-> <<>>]
Unreadable == [k |-> "unreadable", d |-> <<>>]
Malformed == [k |-> "malformed", d |-> <<>>]
Json(d) == [k |-> "json", d |-> d]

\* One directory's contribution (lines 223-231): the parsed mapping, or
\* nothing when the file is missing or open() or json.loads raises.
LoadOne(files, wd, path) ==
    LET runtime_file == path_join(path, <<"runtime.json">>)
        dir == DirOf(dirname(runtime_file), wd)
        f == IF dir \in DOMAIN files THEN files[dir] ELSE Absent
    IN IF f.k = "json" THEN f.d ELSE <<>>

RECURSIVE LoadPrefixes(_, _, _, _, _)
LoadPrefixes(files, wd, paths, index, runtime) ==
    IF index > Len(paths) THEN runtime
    ELSE LoadPrefixes(files, wd, paths, index + 1,
            Update(runtime, LoadOne(files, wd, Join(SubSeq(paths, 1, index), "/"))))

\* runtime_config["command_python"].replace("\\", "/") when truthy
NormalizeCommandPython(runtime) ==
    LET v == Get(runtime, <<"command_python">>, None)
    IN IF Truthy(v)
       THEN Put(runtime, <<"command_python">>, S(Replace(v.s, <<"\\">>, <<"/">>)))
       ELSE runtime

load_command_runtime(files, wd, cmd) ==
    LET command_path == dirname(cmd.path)
        paths == Split(command_path, "/")
    IN NormalizeCommandPython(LoadPrefixes(files, wd, paths, 1, <<>>))

\* ------------------------------------------------------------------ results

Pair(code, out) == [t |-> "pair", code |-> code, out |-> out]
NoResult == [t |-> "none", code |-> 0, out |-> <<>>]
Pending == [t |-> "pending", code |-> 0, out |-> <<>>]

\* ------------------------------------------------------------------ run_command

Whitespace == {" ", "\n"}

\* lines 57-63: strip, drop "/<command_name>", escape quotes and newlines
sanitize(input_text, command_name) ==
    LET stripped == RStrip(LStrip(input_text, Whitespace), Whitespace)
        r1 == Replace(stripped, <<"/">> \o command_name, <<>>)
        r2 == Replace(r1, <<"\"">>, <<"\\", "\"">>)
        r3 == Replace(r2, <<"'">>, <<"\\", "'">>)
    IN Replace(r3, <<"\n">>, <<"\\", "n">>)

\* lines 259-265: the arguments of the function call the model selected
call_function_by_llm(function_call) ==
    IF function_call.t = "none" THEN [t |-> "none", d |-> <<>>]
    ELSE [t |-> "dict", d |-> function_call.arguments]

\* str(v) as line 105 applies it
Str(v) ==
    CASE v.t = "str" -> v.s
      [] v.t = "list" ->
            <<"[">> \o Join([i \in 1..Len(v.s) |-> <<"'", v.s[i], "'">>], ",") \o <<"]">>
      [] OTHER -> <<"None">>

\* json.dumps(v) as line 145 applies it to a list
json_dumps(v) ==
    <<"[">> \o Join([i \in 1..Len(v.s) |-> <<"\"", v.s[i], "\"">>], ",") \o <<"]">>

\* sys.executable
sys_executable == <<"C:", "\\", "python">>

\* lines 238-243
load_chat_data(name, parent_hash, history_messages) ==
    << <<(<<"LLM_MODEL">>), IF Truthy(name) THEN name ELSE S(<<>>)>>,
       <<(<<"PARENT_HASH">>), IF Truthy(parent_hash) THEN parent_hash ELSE S(<<>>)>>,
       <<(<<"CONTEXT_CONTENTS">>),
            IF Truthy(history_messages) THEN history_messages ELSE L(<<>>)>> >>

\* lines 245-250; del env["PYTHONPATH"] raises KeyError when the key is not there
update_devchat_python_path(environ, e, run) ==
    LET python_path == Get(environ, <<"PYTHONPATH">>, S(<<>>))
        e1 == Put(e, <<"DEVCHAT_PYTHONPATH">>,
                  Get(environ, <<"DEVCHAT_PYTHONPATH">>, python_path))
        drop == ~Contains(run, <<"$", "devchat_python", " ">>)
    IN IF drop /\ ~Has(e1, <<"PYTHONPATH">>)
       THEN [raised |-> TRUE, env |-> e1]
       ELSE [raised |-> FALSE,
             env |-> Put(IF drop THEN Del(e1, <<"PYTHONPATH">>) ELSE e1,
                         <<"devchat_python">>,
                         S(Replace(sys_executable, <<"\\">>, <<"/">>)))]

\* lines 103-105: one str.replace per key, in the dict's iteration order
RECURSIVE substitute(_, _, _)
substitute(run, e, i) ==
    IF i > Len(e) THEN run
    ELSE substitute(Replace(run, <<"$">> \o e[i][1], Str(e[i][2])), e, i + 1)

\* the check with its "not" lost
check_command_python_error_inverted(run, parameters) ==
    /\ Contains(run, <<"$", "command_python", " ">>)
    /\ Truthy(Get(parameters, <<"command_python">>, None))

\* lines 155-162
check_command_python_error(run, parameters) ==
    LET need_command_python == Contains(run, <<"$", "command_python", " ">>)
        has_command_python == Get(parameters, <<"command_python">>, None)
    IN need_command_python /\ ~Truthy(has_command_python)

\* lines 164-174: the README's text, None when missing, unreadable
get_readme(state) ==
    CASE state = "text" -> S(<<"usage">>)
      [] state = "empty" -> S(<<>>)
      [] OTHER -> None

\* the check comparing the input with None instead of ""
check_input_miss_error_none(cmd, parameters) ==
    IF cmd.input # "required" THEN [raised |-> FALSE, miss |-> FALSE]
    ELSE IF ~Has(parameters, <<"input">>) THEN [raised |-> TRUE, miss |-> FALSE]
    ELSE [raised |-> FALSE, miss |-> Get(parameters, <<"input">>, None) = None]

\* lines 179-181; parameters["input"] raises KeyError when the key is not there
check_input_miss_error(cmd, parameters) ==
    IF cmd.input # "required" THEN [raised |-> FALSE, miss |-> FALSE]
    ELSE IF ~Has(parameters, <<"input">>) THEN [raised |-> TRUE, miss |-> FALSE]
    ELSE [raised |-> FALSE,
          miss |-> Get(parameters, <<"input">>, None) = S(<<>>)]

\* the scan asking for a space after the token, as the two tool checks do
missed_parameters_space(cmd, run) ==
    {i \in 1..Len(cmd.parameters) : Contains(run, <<"$">> \o cmd.parameters[i] \o <<" ">>)}

\* lines 196-206
missed_parameters(cmd, run) ==
    {i \in 1..Len(cmd.parameters) : Contains(run, <<"$">> \o cmd.parameters[i])}

check_parameters_miss_error(cmd, run) == missed_parameters(cmd, run) # {}

\* lines 110-112, 114-116: (0, "") when the README has text
help_result(state) == IF Truthy(get_readme(state)) THEN Pair(0, <<>>) ELSE Pair(-1, <<>>)

\* the runtime configuration merged before the parameters
merge_env_swapped(environ, parameters, runtime, chat) ==
    Update(Update(Update(environ, runtime), parameters), chat)

\* lines 97-100
merge_env(environ, parameters, runtime, chat) ==
    Update(Update(Update(environ, parameters), runtime), chat)

\* no handler: the exception leaves run_command_with_parameters
except_nothing == [pc |-> "raised", result |-> Pending, caught |-> FALSE]

\* lines 95 and 119-122: an exception raised inside the try block is caught
\* and logged, and the default result is returned
except_Exception == [pc |-> "returned", result |-> Pair(-1, <<>>), caught |-> TRUE]

\* lines 95-122 up to the call of the launcher: where control goes next, with
\* the environment, the substituted run string and the result so far.
run_command_with_parameters(cmd, parameters, parent_hash, history_messages) ==
    LET merged == merge_env(os_environ, parameters,
                            load_command_runtime(fs, cwd, cmd),
                            load_chat_data(model_name, parent_hash, history_messages))
        upd == update_devchat_python_path(os_environ, merged, cmd.run)
        run == substitute(cmd.run, upd.env, 1)
        inp == check_input_miss_error(cmd, upd.env)
        raise(r, built) ==
            [pc |-> except_Exception.pc, env |-> upd.env, command_run |-> r,
             result |-> except_Exception.result,
             trail |-> [check |-> "none", caught |-> except_Exception.caught,
                        built |-> built]]
        out(next, res, check) ==
            [pc |-> next, env |-> upd.env, command_run |-> run, result |-> res,
             trail |-> [check |-> check, caught |-> FALSE, built |-> TRUE]]
    IN IF upd.raised THEN raise(cmd.run, FALSE)
       ELSE IF check_command_python_error(run, upd.env)
       THEN out("returned", Pair(-1, <<>>), "command_python")
       ELSE IF inp.raised THEN raise(run, TRUE)
       ELSE IF inp.miss THEN out("returned", help_result(readme), "input")
       ELSE IF check_parameters_miss_error(cmd, run)
       THEN out("returned", help_result(readme), "parameters")
       ELSE out("launch", Pending, "none")

\* lines 57-81
run_command(cmd, command_name, input_text, function_call, parent_hash, history_messages) ==
    LET text == sanitize(input_text, command_name)
        arguments == call_function_by_llm(function_call)
        out(res, check) ==
            [pc |-> "returned", env |-> <<>>, command_run |-> <<>>, result |-> res,
             trail |-> [check |-> check, caught |-> FALSE, built |-> FALSE]]
    IN IF Len(cmd.parameters) > 0 /\ ~StartsWith(model_name.s, <<"gpt-">>)
       THEN out(NoResult, "model")
       ELSE IF Len(cmd.parameters) > 0 /\ arguments.d = <<>>
       THEN out(Pair(-1, <<>>), "arguments")
       ELSE run_command_with_parameters(cmd,
                Update(<< <<(<<"input">>), S(text)>> >>,
                       IF Len(cmd.parameters) > 0 THEN arguments.d ELSE <<>>),
                parent_hash, history_messages)

\* ------------------------------------------------------------------ launcher
\* __run_command_with_thread_output, lines 124-153, with pipe_reader, lines 30-36

\* What the child may write to one stream, the room in one pipe, its exit codes.
MaxWrite == 2
PipeCap == 1
Letters == {"a", "b"}
ExitCodes == {0, 1}
Streams == {"stdout", "stderr"}

\* lines 143-145: list values become their JSON text before Popen gets env
RECURSIVE dump_env(_, _)
dump_env(e, i) ==
    IF i > Len(e) THEN e
    ELSE dump_env(IF e[i][2].t = "list"
                  THEN [e EXCEPT ![i] = <<e[i][1], S(json_dumps(e[i][2]))>>] ELSE e,
                  i + 1)

\* pipe.read(1) has something to return: a letter, or "" at end of file
CanRead(p) == p.buf # <<>> \/ p.closed

\* both readers accumulating into the stdout buffer
pipe_reader_shared(rs, r, p) ==
    IF p.buf = <<>>
    THEN [rs EXCEPT ![r].pc = "done", ![r].eof = TRUE]
    ELSE [rs EXCEPT !["stdout"].out = @ \o <<Head(p.buf)>>,
                    ![r].echo = @ \o <<Head(p.buf)>>]

\* lines 32-36, one turn of the loop of the reader of stream r: "" ends the
\* loop, a letter goes to the reader's own out_data and to its echo stream.
pipe_reader(rs, r, p) ==
    IF p.buf = <<>>
    THEN [rs EXCEPT ![r].pc = "done", ![r].eof = TRUE]
    ELSE [rs EXCEPT ![r].out = @ \o <<Head(p.buf)>>, ![r].echo = @ \o <<Head(p.buf)>>]

\* a join that returns as soon as the thread was started
joined_started(rs, r) == rs[r].pc # "unstarted"

\* Thread.join() returns once the thread has terminated (lines 139-140)
joined(rs, r) == rs[r].pc = "done"

\* process.wait() returns once the child has exited (line 141)
waited(c) == c.state = "exited"

\* line 141: the pair handle_output returns
handle_output_result(c, rs) == Pair(c.code, rs["stdout"].out)

NoChild == [state |-> "none", code |-> 0,
            wrote |-> [s \in Streams |-> <<>>]]
NoPipes == [s \in Streams |-> [buf |-> <<>>, closed |-> FALSE]]
NoReaders == [s \in Streams |-> [pc |-> "unstarted", out |-> <<>>, echo |-> <<>>, eof |-> FALSE]]

\* line 146: Popen starts the child with two fresh pipes ...
Popen ==
    /\ main = "popen"
    /\ main' = "start_stdout"
    /\ child' = [NoChild EXCEPT !.state = "running"]
    /\ UNCHANGED <<pipes, readers, launched, others>>

\* ... or raises (no such program, a run string shlex cannot split)
PopenFails ==
    /\ main = "popen"
    /\ main' = "raised"
    /\ UNCHANGED <<child, pipes, readers, launched, others>>

\* lines 137-138
StartThread(r, next) ==
    /\ main = "start_" \o r
    /\ readers' = [readers EXCEPT ![r].pc = "running"]
    /\ main' = next
    /\ UNCHANGED <<child, pipes, launched, others>>

StartStdout == StartThread("stdout", "start_stderr")
StartStderr == StartThread("stderr", "join_stdout")

\* lines 139-140
JoinThread(r, next) ==
    /\ main = "join_" \o r
    /\ joined(readers, r)
    /\ main' = next
    /\ UNCHANGED <<child, pipes, readers, launched, others>>

JoinStdout == JoinThread("stdout", "join_stderr")
JoinStderr == JoinThread("stderr", "wait")

\* lines 141 and 153
WaitAndReturn ==
    /\ main = "wait"
    /\ waited(child)
    /\ launched' = handle_output_result(child, readers)
    /\ main' = "returned"
    /\ UNCHANGED <<child, pipes, readers, others>>

\* a reader thread's turn
ReaderStep(r) ==
    /\ readers[r].pc = "running"
    /\ CanRead(pipes[r])
    /\ readers' = pipe_reader(readers, r, pipes[r])
    /\ pipes' = [pipes EXCEPT ![r].buf = IF @ = <<>> THEN @ ELSE Tail(@)]
    /\ UNCHANGED <<main, child, launched, others>>

\* the child writes a letter to a stream it has open, when the pipe has room
ChildWrite(s) ==
    /\ child.state = "running"
    /\ ~pipes[s].closed
    /\ Len(pipes[s].buf) < PipeCap
    /\ Len(child.wrote[s]) < MaxWrite
    /\ \E ch \in Letters :
          /\ pipes' = [pipes EXCEPT ![s].buf = Append(@, ch)]
          /\ child' = [child EXCEPT !.wrote[s] = Append(@, ch)]
    /\ UNCHANGED <<main, readers, launched, others>>

\* the child closes a stream
ChildClose(s) ==
    /\ child.state = "running"
    /\ ~pipes[s].closed
    /\ pipes' = [pipes EXCEPT ![s].closed = TRUE]
    /\ UNCHANGED <<main, child, readers, launched, others>>

\* the child exits: its open streams are closed with it
ChildExit ==
    /\ child.state = "running"
    /\ \E code \in ExitCodes : child' = [child EXCEPT !.state = "exited", !.code = code]
    /\ pipes' = [s \in Streams |-> [pipes[s] EXCEPT !.closed = TRUE]]
    /\ UNCHANGED <<main, readers, launched, others>>

\* ------------------------------------------------------------------ the worlds

K(name) == <<name>>
Item(name, text) == <<K(name), S(text)>>

\* Command.steps[0]["run"]
RunStrings ==
    { <<"echo", " ", "$", "input">>,
      <<"$", "command_python", " ", "main.py", " ", "$", "input">>,
      <<"echo", " ", "$", "command_python">>,
      <<"$", "devchat_python", " ", "main.py", " ", "$", "topic">>,
      <<"echo", " ", "$", "devchat_python">>,
      <<"echo", " ", "$", "topic">>,
      <<"cat", " ", "$", "input", "_file">>,
      <<"echo", " ", "$", "CONTEXT_CONTENTS">> }

\* Command.parameters: the declared names (none for None and for {})
ParameterLists == { <<>>, <<K("topic")>>, << <<"input", "_file">> >> }

CommandPath == <<"/", "a", "/", "cmd.yml">>

Commands ==
    [run : RunStrings, input : {"required", "optional"},
     parameters : ParameterLists, path : {CommandPath}]

ModelNames == { S(<<"gpt-", "4">>), S(<<>>) }

Environs ==
    { <<>>,
      << Item("PYTHONPATH", <<"/pp">>) >>,
      << Item("PYTHONPATH", <<"/pp">>), Item("DEVCHAT_PYTHONPATH", <<"/dpp">>),
         Item("LLM_MODEL", <<"inherited">>), Item("input", <<"inherited">>),
         Item("topic", <<"inherited">>) >> }

HomeDir == <<"w">>
CommandDir == <<"a">>

RuntimeFiles ==
    { Absent,
      Malformed,
      Json(<< Item("command_python", <<"C:", "\\", "py">>) >>),
      Json(<< Item("topic", <<"runtime">>), Item("DEVCHAT_PYTHONPATH", <<"/rt">>),
              Item("PARENT_HASH", <<"runtime">>), Item("input", <<"runtime">>) >>) }

Readmes == {"absent", "unreadable", "empty", "text"}

InputTexts ==
    { <<>>,
      <<" ", "/", "cmd", "\n">>,
      <<"$", "LLM_MODEL">>,
      <<"/", "cmd", " ", "\"", "hi", "\"">> }

\* What ToolUtil.select_function_by_llm gives back: nothing, or a function
\* call with its arguments.
FunctionCalls ==
    { [t |-> "none", arguments |-> <<>>],
      [t |-> "call", arguments |-> <<>>],
      [t |-> "call", arguments |-> << Item("topic", <<"cats">>) >>] }

\* parameters of a direct call of run_command_with_parameters
ParameterDicts ==
    { << Item("input", <<>>) >>,
      << Item("input", <<"hello">>), Item("topic", <<"cats">>) >>,
      << Item("input", <<"$", "topic">>), Item("topic", <<"cats">>) >>,
      << Item("topic", <<"cats">>) >> }

\* parent_hash and history_messages, absent or given
Chats ==
    { [parent_hash |-> None, history_messages |-> None],
      [parent_hash |-> S(<<"h1">>), history_messages |-> L(<<"m1", "m2">>)] }

Calls ==
    { [entry |-> "run_command", command_name |-> <<"cmd">>, input_text |-> i,
       function_call |-> f, parameters |-> <<>>, chat |-> c] :
          i \in InputTexts, f \in FunctionCalls, c \in Chats }
    \cup
    { [entry |-> "run_command_with_parameters", command_name |-> <<"cmd">>,
       input_text |-> <<>>, function_call |-> [t |-> "none", arguments |-> <<>>],
       parameters |-> p, chat |-> c] :
          p \in ParameterDicts, c \in Chats }

NoCall ==
    [entry |-> "none", command_name |-> <<>>, input_text |-> <<>>,
     function_call |-> [t |-> "none", arguments |-> <<>>], parameters |-> <<>>,
     chat |-> [parent_hash |-> None, history_messages |-> None]]

NoTrail == [check |-> "none", caught |-> FALSE, built |-> FALSE]

RunnerIdle ==
    /\ pc = "idle"
    /\ env = <<>>
    /\ command_run = <<>>
    /\ result = Pending
    /\ spawned = FALSE
    /\ trail = NoTrail

LauncherIdle(at) ==
    /\ main = at
    /\ child = NoChild
    /\ pipes = NoPipes
    /\ readers = NoReaders
    /\ launched = Pending

\* ------------------------------------------------------------------ Spec:
\* one call of run_command or of run_command_with_parameters

Init ==
    /\ command \in Commands
    /\ model_name \in ModelNames
    /\ os_environ \in Environs
    /\ cwd = HomeDir
    /\ \E f \in RuntimeFiles : fs = (CommandDir :> f)
    /\ readme \in Readmes
    /\ call \in Calls
    \* the language model is asked only for a command that declares parameters
    /\ Len(command.parameters) = 0 => call.function_call.t = "none"
    /\ RunnerIdle
    /\ runtime_config = <<>>
    /\ LauncherIdle("idle")

Returns(o) ==
    /\ pc' = o.pc
    /\ env' = o.env
    /\ command_run' = o.command_run
    /\ result' = o.result
    /\ trail' = o.trail
    /\ UNCHANGED <<spawned, world, runtime_config, launcher>>

RunCommand ==
    /\ pc = "idle"
    /\ call.entry = "run_command"
    /\ Returns(run_command(command, call.command_name, call.input_text,
                           call.function_call, call.chat.parent_hash,
                           call.chat.history_messages))

RunCommandWithParameters ==
    /\ pc = "idle"
    /\ call.entry = "run_command_with_parameters"
    /\ Returns(run_command_with_parameters(command, call.parameters,
                           call.chat.parent_hash, call.chat.history_messages))

\* line 118: the launcher runs the child and returns its exit code and stdout
LaunchReturns ==
    /\ pc = "launch"
    /\ spawned' = TRUE
    /\ env' = dump_env(env, 1)
    /\ \E code \in ExitCodes, out \in {<<>>, <<"a">>} : result' = Pair(code, out)
    /\ pc' = "returned"
    /\ UNCHANGED <<command_run, trail, world, runtime_config, launcher>>

\* lines 118-121: the launcher raises, the exception is caught and logged
LaunchRaises ==
    /\ pc = "launch"
    /\ spawned' = TRUE
    /\ env' = dump_env(env, 1)
    /\ result' = except_Exception.result
    /\ trail' = [trail EXCEPT !.caught = except_Exception.caught]
    /\ pc' = except_Exception.pc
    /\ UNCHANGED <<command_run, world, runtime_config, launcher>>

Next == RunCommand \/ RunCommandWithParameters \/ LaunchReturns \/ LaunchRaises

Spec == Init /\ [][Next]_vars

\* ------------------------------------------------------------------ SpecLauncher:
\* one run of __run_command_with_thread_output

WorldIdle ==
    /\ command = [run |-> <<"echo">>, input |-> "optional", parameters |-> <<>>,
                  path |-> CommandPath]
    /\ model_name = S(<<>>)
    /\ os_environ = <<>>
    /\ cwd = HomeDir
    /\ fs = (CommandDir :> Absent)
    /\ readme = "absent"
    /\ call = NoCall

InitLauncher ==
    /\ WorldIdle
    /\ RunnerIdle
    /\ runtime_config = <<>>
    /\ LauncherIdle("popen")

LauncherStep ==
    \/ Popen
    \/ PopenFails
    \/ StartStdout
    \/ StartStderr
    \/ JoinStdout
    \/ JoinStderr
    \/ WaitAndReturn
    \/ \E r \in Streams : ReaderStep(r)
    \/ \E s \in Streams : ChildWrite(s)
    \/ \E s \in Streams : ChildClose(s)
    \/ ChildExit

SpecLauncher == InitLauncher /\ [][LauncherStep]_vars

\* ------------------------------------------------------------------ SpecRuntime:
\* __load_command_runtime over a file system

\* how many runtime.json files the file system holds
MaxFiles == 2

Dirs == { <<>>, <<"a">>, <<"a", "b">>, <<"w">>, <<"w", "a">>, <<"a", "a">> }

Paths ==
    { <<"/", "a", "/", "b", "/", "cmd.yml">>,
      <<"/", "a", "/", "cmd.yml">>,
      <<"/", "w", "/", "a", "/", "cmd.yml">>,
      <<"/", "cmd.yml">> }

WorkingDirs == { <<>>, <<"a">>, <<"w">> }

FileStates ==
    { Unreadable,
      Malformed,
      Json(<< Item("key", <<"x">>) >>),
      Json(<< Item("key", <<"y">>), Item("other", <<"o">>) >>),
      Json(<< Item("command_python", <<"C:", "\\", "py">>) >>) }

FileSystems ==
    UNION { [D -> FileStates] : D \in {D \in SUBSET Dirs : Cardinality(D) <= MaxFiles} }

InitRuntime ==
    /\ \E p \in Paths :
          command = [run |-> <<"echo">>, input |-> "optional", parameters |-> <<>>,
                     path |-> p]
    /\ cwd \in WorkingDirs
    /\ fs \in FileSystems
    /\ model_name = S(<<>>)
    /\ os_environ = <<>>
    /\ readme = "absent"
    /\ call = NoCall
    /\ RunnerIdle
    /\ runtime_config = <<>>
    /\ LauncherIdle("idle")

LoadCommandRuntime ==
    /\ pc = "idle"
    /\ runtime_config' = load_command_runtime(fs, cwd, command)
    /\ pc' = "returned"
    /\ UNCHANGED <<world, env, command_run, result, spawned, trail, launcher>>

SpecRuntime == InitRuntime /\ [][LoadCommandRuntime]_vars

\* ------------------------------------------------------------------ properties

\* run_command_with_parameters was entered, and the parameters it was given
Invoked == pc # "idle" /\ trail.check \notin {"model", "arguments"}

PassedParameters ==
    IF call.entry = "run_command"
    THEN Update(<< Item("input", sanitize(call.input_text, call.command_name)) >>,
                IF Len(command.parameters) > 0 THEN call.function_call.arguments ELSE <<>>)
    ELSE call.parameters

NotLaunched == pc # "launch" /\ ~spawned

InputOf(d) == Get(d, K("input"), None)

\* the tool-path condition on the substituted run string and the environment
ToolMissing ==
    /\ Contains(command_run, <<"$", "command_python", " ">>)
    /\ ~Truthy(Get(env, K("command_python"), None))

\* the required-input condition on the environment
InputMissing ==
    command.input = "required" /\ (~Has(env, K("input")) \/ InputOf(env) = S(<<>>))

\* a README that exists and can be shown: readable and not empty
ReadmeHasText == readme = "text"

\* C1 as stated: a required input that is empty never spawns, and returns (0, "")
\* when a README exists and (-1, "") when none does, whatever the environment,
\* the runtime configuration and the run string are.
C1_Original ==
    (Invoked /\ command.input = "required" /\ InputOf(PassedParameters) = S(<<>>))
        => /\ NotLaunched
           /\ result = IF ReadmeHasText THEN Pair(0, <<>>) ELSE Pair(-1, <<>>)

\* C1 amended: when the input is required and empty in the environment that was
\* built, no child process is spawned; the result is (0, "") when the build
\* completed, the tool-path check did not fire and the README is readable and
\* not empty, and (-1, "") in every other case.
C1_Amended ==
    (Invoked /\ command.input = "required" /\ InputOf(env) = S(<<>>))
        => /\ NotLaunched
           /\ result = IF trail.built /\ ~ToolMissing /\ ReadmeHasText
                       THEN Pair(0, <<>>) ELSE Pair(-1, <<>>)

C1_Witness ==
    /\ Invoked /\ command.input = "required" /\ InputOf(env) = S(<<>>)
    /\ trail.check = "input" /\ result = Pair(0, <<>>) /\ pc = "returned"

\* C2 as stated: a run string holding the token $command_python anywhere, with
\* no command_python in the environment, returns (-1, "") and spawns nothing.
C2_Original ==
    (Invoked /\ Contains(command.run, <<"$", "command_python">>)
             /\ ~Has(env, K("command_python")))
        => NotLaunched /\ result = Pair(-1, <<>>)

\* C2 amended: when the substituted run string holds $command_python followed by
\* a space and the environment holds no non-empty command_python, the result is
\* (-1, "") and nothing is spawned, whatever the README and the other parameters.
C2_Amended ==
    (Invoked /\ ToolMissing) => NotLaunched /\ result = Pair(-1, <<>>)

C2_Witness ==
    /\ Invoked /\ ToolMissing /\ trail.check = "command_python"
    /\ ReadmeHasText /\ command.input = "required" /\ InputOf(env) = S(<<>>)
    /\ result = Pair(-1, <<>>) /\ pc = "returned"

\* the failure classes of C3, as the state records them
NoArguments == trail.check = "arguments"
FailureClass ==
    \/ NoArguments
    \/ trail.check \in {"command_python", "input", "parameters"}
    \/ trail.caught

\* C3: no call of run_command raises, and in each failure class (no arguments
\* from the language model, tool path missing, input missing, declared
\* parameter missing, PYTHONPATH absent, spawn or pipe failure) the value
\* returned is an (exit code, stdout) pair.
C3_Graceful ==
    /\ pc # "raised"
    /\ (pc = "returned" /\ call.entry = "run_command" /\ FailureClass)
          => result.t = "pair" /\ result.code \in {-1, 0} /\ result.out = <<>>

C3_Witness ==
    /\ pc = "returned" /\ call.entry = "run_command"
    /\ trail.caught /\ ~trail.built /\ ~Has(os_environ, K("PYTHONPATH"))
    /\ result = Pair(-1, <<>>)

\* the four layers of the merge, first to last
Layers ==
    << os_environ, PassedParameters, load_command_runtime(fs, cwd, command),
       load_chat_data(model_name, call.chat.parent_hash, call.chat.history_messages) >>

LayersOf(ls, k) == {i \in 1..4 : Has(ls[i], k)}
Latest(ls, k) == LET i == CHOOSE j \in LayersOf(ls, k) : \A m \in LayersOf(ls, k) : m <= j
                 IN Get(ls[i], k, None)
LayerKeys(ls) == UNION {Keys(ls[i]) : i \in 1..4}
ChatKeys == {K("LLM_MODEL"), K("PARENT_HASH"), K("CONTEXT_CONTENTS")}
ChatDefaults ==
    /\ ChatKeys \subseteq Keys(env)
    /\ ~Truthy(model_name) => Get(env, K("LLM_MODEL"), None) = S(<<>>)
    /\ ~Truthy(call.chat.parent_hash) => Get(env, K("PARENT_HASH"), None) = S(<<>>)
    /\ ~Truthy(call.chat.history_messages)
          => Get(env, K("CONTEXT_CONTENTS"), None) = L(<<>>)

\* the environment as substitution used it: built, and not yet serialised
Substituted == Invoked /\ trail.built /\ ~spawned

\* C4 as stated: every key that several layers define has the value of the last
\* of them, and the three chat keys are always there.
C4_Original ==
    Substituted
        => LET ls == Layers
           IN /\ \A k \in LayerKeys(ls) :
                    Cardinality(LayersOf(ls, k)) > 1
                       => Has(env, k) /\ Get(env, k, None) = Latest(ls, k)
              /\ ChatDefaults

\* C4 amended: every key the layers define, other than DEVCHAT_PYTHONPATH,
\* PYTHONPATH and devchat_python (set or removed after the merge), has the value
\* of the last layer that defines it, and the three chat keys are always there,
\* empty string or empty list when absent.
C4_Amended ==
    Substituted
        => LET ls == Layers
           IN /\ \A k \in LayerKeys(ls) \ {K("DEVCHAT_PYTHONPATH"), K("PYTHONPATH"),
                                           K("devchat_python")} :
                    Has(env, k) /\ Get(env, k, None) = Latest(ls, k)
              /\ ChatDefaults

C4_Witness ==
    /\ Substituted
    /\ LayersOf(Layers, K("topic")) = {1, 2, 3}
    /\ Get(env, K("topic"), None) = S(<<"runtime">>)
    /\ LayersOf(Layers, K("LLM_MODEL")) = {1, 4}
    /\ ~Truthy(call.chat.history_messages)

\* C7: once the environment is built PYTHONPATH is gone when the run string has
\* no "$devchat_python " and is kept as inherited when it has; and without an
\* inherited PYTHONPATH the build still completes and the checks are reached.
C7_Claim ==
    Invoked
        => /\ trail.built
           /\ IF Contains(command.run, <<"$", "devchat_python", " ">>)
              THEN Has(os_environ, K("PYTHONPATH"))
                      => Get(env, K("PYTHONPATH"), None)
                            = Get(os_environ, K("PYTHONPATH"), None)
              ELSE ~Has(env, K("PYTHONPATH"))

\* the declared-parameter check was reached
ParametersChecked ==
    Invoked /\ Len(command.parameters) > 0 /\ trail.built /\ ~ToolMissing /\ ~InputMissing

Declared == {command.parameters[i] : i \in 1..Len(command.parameters)}

\* C8 as stated: the check aborts exactly when a declared parameter that was
\* never supplied has its token in the run string, with (0, "") when a README
\* exists and (-1, "") otherwise; else the process is spawned.
C8_Original ==
    ParametersChecked
        => IF \E p \in Declared : ~Has(env, p) /\ Contains(command.run, <<"$">> \o p)
           THEN /\ NotLaunched
                /\ result = IF ReadmeHasText THEN Pair(0, <<>>) ELSE Pair(-1, <<>>)
           ELSE pc = "launch" \/ spawned

\* C8 amended: the check aborts exactly when the substituted run string still
\* holds the token of a declared parameter, with (0, "") when the README is
\* readable and not empty and (-1, "") otherwise; else the process is spawned.
C8_Amended ==
    ParametersChecked
        => IF \E p \in Declared : Contains(command_run, <<"$">> \o p)
           THEN /\ NotLaunched
                /\ result = IF ReadmeHasText THEN Pair(0, <<>>) ELSE Pair(-1, <<>>)
           ELSE pc = "launch" \/ spawned

C8_Witness ==
    /\ ParametersChecked /\ trail.check = "parameters"
    /\ \E p \in Declared : ~Has(env, p) /\ Contains(command_run, <<"$">> \o p)
    /\ result = Pair(0, <<>>) /\ pc = "returned"

\* C9: a value that was inserted for one key and holds the token of another key
\* is in the final command string as it was inserted.
C9_Claim ==
    (Invoked /\ trail.built)
        => \A i \in 1..Len(env) :
              ( /\ Contains(command.run, <<"$">> \o env[i][1])
                /\ \E j \in 1..Len(env) :
                      j # i /\ Contains(Str(env[i][2]), <<"$">> \o env[j][1]) )
                 => Contains(command_run, Str(env[i][2]))

\* C5: the launcher returns only after both readers read end of file and
\* ended, with their pipes drained, and after the child exited; it starts to
\* wait for the child only after both readers were joined.
C5_Ordering ==
    /\ main \in {"wait", "returned"}
          => \A r \in Streams :
                /\ readers[r].pc = "done" /\ readers[r].eof
                /\ pipes[r].closed /\ pipes[r].buf = <<>>
    /\ main = "returned" => child.state = "exited" /\ launched.t = "pair"

C5_Witness ==
    /\ main = "returned"
    /\ Len(child.wrote["stdout"]) >= 2 /\ Len(child.wrote["stderr"]) >= 1

Ancestry == LET d == DirOf(dirname(command.path), cwd)
            IN [i \in 1..(Len(d) + 1) |-> SubSeq(d, 1, i - 1)]

RECURSIVE MergeDirs(_, _, _)
MergeDirs(dirs, i, acc) ==
    IF i > Len(dirs) THEN acc
    ELSE MergeDirs(dirs, i + 1,
            Update(acc, IF dirs[i] \in DOMAIN fs /\ fs[dirs[i]].k = "json"
                        THEN fs[dirs[i]].d ELSE <<>>))

\* C6: the resolved configuration is the merge, root first, of the runtime.json
\* of the root, of every ancestor and of the command's directory, and of no
\* other directory; a missing, unreadable or malformed file adds nothing.
C6_Claim ==
    pc = "returned"
        => runtime_config = NormalizeCommandPython(MergeDirs(Ancestry, 1, <<>>))

====
